---------------------------- MODULE Spec2Model ----------------------------
(***************************************************************************)
(* A model of epubify.py: read_text, the line classifier, parse_metadata,  *)
(* parse_book, build_nav_items and the section numbering of build_epub.    *)
(*                                                                         *)
(* A str is a sequence of characters; a character is a one-token string.   *)
(* CJK characters are written by their pinyin name:                        *)
(*   DI 第  ZHANG 章  JIE 节  HUI 回  JUAN 卷  BU 部                       *)
(*   YI 一 ER 二 SAN 三 SI 四 WU 五 LIU 六 QI 七 BA 八 JIU 九 SHI 十       *)
(*   BAI 百 QIAN 千 WAN 万 LIANG 两 LING 零 LINGO 〇                       *)
(*   SHU 书 MING 名 ZUO 作 ZHE 者 NEI 内 RONG 容 JIAN 简 JIE4 介 SHAO 绍   *)
(*   WEN 文 AN 案 ZHENG 正 XU 序 ...                                       *)
(*   PERIOD 。 EXCL ！ QUES ？ CCOMMA ， COMMA , COLON : CCOLON ：         *)
(*   LB 《  RB 》  SP U+0020  TAB U+0009  IDSP U+3000  NL U+000A           *)
(* Optional[T] is a sequence of length at most one: None is << >> and a    *)
(* value v is <<v>>.  Python's 0-based list indices are 1-based here.      *)
(***************************************************************************)
EXTENDS Integers, Sequences, FiniteSets, TLC

VARIABLES
    pc,              \* position of the program
    lines,           \* parse_book: text.splitlines()
    source_name,     \* parse_book: the fallback name
    meta,            \* parse_metadata: its locals
    body_lines,      \* parse_book: the filtered body stream
    book,            \* the Book under construction
    heap,            \* the Volume / Chapter / FrontMatter objects, by identity
    current_volume,  \* parse_book: Optional reference to a Volume
    current_chapter, \* parse_book: Optional reference to a Chapter
    idx,             \* parse_book: index of the assembler loop
    epub,            \* build_epub: section_files, spine_items, nav_items
    data,            \* read_text: the bytes read
    enc,             \* read_text: index in ENCODING_CANDIDATES
    text,            \* read_text: Optional result
    h_line,          \* classify_heading: line
    h_prev,          \* classify_heading: prev_line
    h_next,          \* classify_heading: next_line
    h_type           \* classify_heading: the value returned

vars == <<pc, lines, source_name, meta, body_lines, book, heap, current_volume,
          current_chapter, idx, epub, data, enc, text, h_line, h_prev, h_next, h_type>>

parseVars == <<lines, source_name, meta, body_lines, book, heap, current_volume,
               current_chapter, idx, epub>>
readVars == <<data, enc, text>>
classifyVars == <<h_line, h_prev, h_next, h_type>>

-----------------------------------------------------------------------------
(* Optional values and str primitives *)

None == << >>
Some(v) == <<v>>
IsNone(o) == o = << >>
Get(o) == o[1]

\* str.strip() and the regex class \s: Unicode white space
WHITESPACE == {"SP", "TAB", "IDSP", "NL"}

RECURSIVE LStrip(_)
LStrip(s) == IF s = << >> THEN << >>
             ELSE IF Head(s) \in WHITESPACE THEN LStrip(Tail(s)) ELSE s

RECURSIVE RStrip(_)
RStrip(s) == IF s = << >> THEN << >>
             ELSE IF s[Len(s)] \in WHITESPACE THEN RStrip(SubSeq(s, 1, Len(s) - 1)) ELSE s

Strip(s) == RStrip(LStrip(s))

StartsWith(s, p) == Len(s) >= Len(p) /\ SubSeq(s, 1, Len(p)) = p

\* re.search of a literal
Contains(s, p) == \E k \in 1..(Len(s) - Len(p) + 1) : SubSeq(s, k, k + Len(p) - 1) = p

AllIn(s, a, b, S) == \A k \in a..b : s[k] \in S

\* str.replace(c, "")
RECURSIVE Remove(_, _)
Remove(s, c) == IF s = << >> THEN << >>
                ELSE IF Head(s) = c THEN Remove(Tail(s), c)
                     ELSE <<Head(s)>> \o Remove(Tail(s), c)

RECURSIVE CountIn(_, _)
CountIn(s, S) == IF s = << >> THEN 0
                 ELSE (IF Head(s) \in S THEN 1 ELSE 0) + CountIn(Tail(s), S)

-----------------------------------------------------------------------------
(* The heading tables *)

DIGITS == {"0", "1", "2", "3", "4", "5", "6", "7", "8", "9"}
NUMERALS == DIGITS \cup {"YI", "ER", "SAN", "SI", "WU", "LIU", "QI", "BA", "JIU", "SHI",
                         "BAI", "QIAN", "WAN", "LIANG", "LING", "LINGO"}

\* ^第\s*[numerals]+\s*<unit>.*$
MatchOrdinal(s, unit) ==
    /\ Len(s) >= 3
    /\ s[1] = "DI"
    /\ \E a \in 2..Len(s) : \E b \in a..Len(s) : \E c \in (b + 1)..Len(s) :
          /\ AllIn(s, 2, a - 1, WHITESPACE)
          /\ AllIn(s, a, b, NUMERALS)
          /\ AllIn(s, b + 1, c - 1, WHITESPACE)
          /\ s[c] = unit

Lower(ch) == CASE ch = "C" -> "c" [] ch = "H" -> "h" [] ch = "A" -> "a" [] ch = "P" -> "p"
               [] ch = "T" -> "t" [] ch = "E" -> "e" [] ch = "R" -> "r" [] OTHER -> ch

\* ^Chapter\s+\d+.*$ with re.IGNORECASE
MatchChapterWord(s) ==
    /\ Len(s) >= 9
    /\ [k \in 1..7 |-> Lower(s[k])] = <<"c", "h", "a", "p", "t", "e", "r">>
    /\ \E a \in 9..Len(s) : AllIn(s, 8, a - 1, WHITESPACE) /\ s[a] \in DIGITS

\* ^卷\s*[numerals]+.*$
MatchJuan(s) ==
    /\ Len(s) >= 2
    /\ s[1] = "JUAN"
    /\ \E a \in 2..Len(s) : AllIn(s, 2, a - 1, WHITESPACE) /\ s[a] \in NUMERALS

CHAPTER_PATTERNS(s) ==
    \/ MatchOrdinal(s, "ZHANG")
    \/ MatchOrdinal(s, "JIE")
    \/ MatchOrdinal(s, "HUI")
    \/ MatchChapterWord(s)

VOLUME_PATTERNS(s) ==
    \/ MatchOrdinal(s, "JUAN")
    \/ MatchJuan(s)
    \/ MatchOrdinal(s, "BU")

SPECIAL_HEADINGS ==
    { <<"XU", "ZHANG">>, <<"XU">>, <<"XIE", "ZI">>, <<"YIN", "ZI">>, <<"QIAN2", "YAN">>,
      <<"QIAN2", "XU">>, <<"HOU", "JI">>, <<"HOU", "XU">>, <<"WEI", "SHENG">>,
      <<"JIE2", "YU">>, <<"ZHONG", "ZHANG">>, <<"ZHONG", "JUAN">>, <<"ZHONG", "PIAN">>,
      <<"FAN", "WAI">>, <<"FAN", "WAI", "PIAN">>, <<"ZUO", "ZHE", "DE", "HUA">>,
      <<"WAN2", "JIE2", "GAN", "YAN">> }

MatchSpecial(s) ==
    \E kw \in SPECIAL_HEADINGS :
        \/ s = kw
        \/ StartsWith(s, kw \o <<"SP">>)
        \/ StartsWith(s, kw \o <<"CCOLON">>)
        \/ StartsWith(s, kw \o <<"COLON">>)

SENTENCE_END == {"PERIOD", "EXCL", "QUES"}
COMMAS == {"CCOMMA", "COMMA"}
HEADING_MAX_LEN == 40
HEADING_MAX_COMMAS == 1

\* prev_line is None or not prev_line.strip()
NeighbourBlank(o) == IsNone(o) \/ Strip(Get(o)) = << >>

Isolated(prev_line, next_line) == NeighbourBlank(prev_line) \/ NeighbourBlank(next_line)

\* is_likely_heading_line with >= for > in the length test
is_likely_heading_line_ge(line, prev_line, next_line) ==
    LET s == Strip(line)
        isolated == Isolated(prev_line, next_line)
    IN  IF s = << >> THEN FALSE
        ELSE IF s[Len(s)] \in SENTENCE_END /\ ~isolated THEN FALSE
        ELSE IF Len(s) >= HEADING_MAX_LEN /\ ~isolated THEN FALSE
        ELSE IF CountIn(s, COMMAS) > HEADING_MAX_COMMAS /\ ~isolated THEN FALSE
        ELSE TRUE

is_likely_heading_line(line, prev_line, next_line) ==
    LET s == Strip(line)
        isolated == Isolated(prev_line, next_line)
    IN  IF s = << >> THEN FALSE
        ELSE IF s[Len(s)] \in SENTENCE_END /\ ~isolated THEN FALSE
        ELSE IF Len(s) > HEADING_MAX_LEN /\ ~isolated THEN FALSE
        ELSE IF CountIn(s, COMMAS) > HEADING_MAX_COMMAS /\ ~isolated THEN FALSE
        ELSE TRUE

\* Optional[str]: None, "chapter" or "volume"
classify_heading(line, prev_line, next_line) ==
    LET s == Strip(line)
        likely == is_likely_heading_line(line, prev_line, next_line)
    IN  IF s = << >> THEN None
        ELSE IF CHAPTER_PATTERNS(s) THEN (IF likely THEN Some("chapter") ELSE None)
        ELSE IF MatchSpecial(s) THEN (IF likely THEN Some("chapter") ELSE None)
        ELSE IF VOLUME_PATTERNS(s) THEN (IF likely THEN Some("volume") ELSE None)
        ELSE None

is_heading(line, prev_line, next_line) == ~IsNone(classify_heading(line, prev_line, next_line))

-----------------------------------------------------------------------------
(* parse_metadata *)

COLONS == {"COLON", "CCOLON"}

\* the alternatives of LABEL_RE's group 1
IsLabel(l) ==
    \/ l \in { <<"SHU", "MING">>, <<"ZUO", "ZHE">>, <<"NEI", "RONG", "JIAN", "JIE4">>,
               <<"JIAN", "JIE4">>, <<"NEI", "RONG", "JIE4", "SHAO">>, <<"WEN", "AN">> }
    \/ /\ Len(l) >= 2
       /\ l[1] = "ZUO"
       /\ l[Len(l)] = "ZHE"
       /\ AllIn(l, 2, Len(l) - 1, WHITESPACE)

\* LABEL_RE.match(s): None, or the groups (label, value before .strip())
LABEL_RE(s) ==
    LET M == { kc \in (1..Len(s)) \X (1..Len(s)) :
                 /\ kc[1] < kc[2]
                 /\ IsLabel(SubSeq(s, 1, kc[1]))
                 /\ AllIn(s, kc[1] + 1, kc[2] - 1, WHITESPACE)
                 /\ s[kc[2]] \in COLONS }
    IN  IF M = {} THEN None
        ELSE LET kc == CHOOSE x \in M : TRUE
             IN  Some([label |-> SubSeq(s, 1, kc[1]),
                       value |-> SubSeq(s, kc[2] + 1, Len(s))])

\* TITLE_ONLY_RE.match(s): None, or group 1
TITLE_ONLY_RE(s) ==
    IF Len(s) >= 3 /\ s[1] = "LB" /\ s[Len(s)] = "RB"
    THEN Some(SubSeq(s, 2, Len(s) - 1))
    ELSE None

SKIP_CANDIDATE_RE(s) ==
    \E p \in { <<"h", "t", "t", "p">>, <<"w", "w", "w">>, <<"Q", "Q", "QUN">>, <<"QUN">>,
               <<"GONG", "ZHONG4", "HAO">>, <<"WEI1", "XIN">>, <<"XIA", "ZAI">>,
               <<"t", "x", "t">>, <<"ZHENG3", "LI">>, <<"JIAO", "DUI">>, <<"DA", "BAO">>,
               <<"BEN", "SHU">>, <<"DIAN", "ZI3", "SHU">> } : Contains(s, p)

TITLE_LABELS == { <<"SHU", "MING">> }
AUTHOR_LABELS == { <<"ZUO", "ZHE">>, <<"ZUO", "SP", "ZHE">> }
BARE_TITLE == { <<"SHU", "MING">>, <<"SHU", "SP", "MING">> }
BARE_AUTHOR == { <<"ZUO", "ZHE">>, <<"ZUO", "SP", "ZHE">> }
BARE_INTRO == { <<"NEI", "RONG", "JIAN", "JIE4">>, <<"JIAN", "JIE4">>,
                <<"NEI", "RONG", "JIE4", "SHAO">>, <<"WEN", "AN">> }
CANDIDATE_WINDOW == 6

\* lines[i - 1] if i > 0 else None ; lines[i + 1] if i + 1 < len(lines) else None
PrevOf(ls, i) == IF i > 1 THEN Some(ls[i - 1]) ELSE None
NextOf(ls, i) == IF i + 1 <= Len(ls) THEN Some(ls[i + 1]) ELSE None

\* the first loop of parse_metadata: scan_limit
ScanLimit(ls) ==
    LET H == { i \in 1..Len(ls) : is_heading(ls[i], PrevOf(ls, i), NextOf(ls, i)) }
    IN  IF H = {} THEN Len(ls)
        ELSE (CHOOSE i \in H : \A j \in H : i <= j) - 1

MetaLocals == [title |-> None, author |-> None, intro_lines |-> << >>, skip_idx |-> {},
               candidates |-> << >>, pending_label |-> None, in_intro |-> FALSE,
               scan_limit |-> 0, non_empty_seen |-> 0, i |-> 1, break |-> FALSE,
               intro |-> None]

\* the branch of a label line, lines 191-208
LabelLine(m, i, label, value) ==
    LET m1 == [m EXCEPT !.skip_idx = @ \cup {i}]
    IN  IF label \in TITLE_LABELS
        THEN IF value # << >> THEN [m1 EXCEPT !.title = Some(value)]
             ELSE [m1 EXCEPT !.pending_label = Some("title")]
        ELSE IF label \in AUTHOR_LABELS
        THEN IF value # << >> THEN [m1 EXCEPT !.author = Some(value)]
             ELSE [m1 EXCEPT !.pending_label = Some("author")]
        ELSE [m1 EXCEPT !.intro_lines = IF value # << >> THEN Append(@, value) ELSE @,
                        !.in_intro = TRUE]

\* the branch of a line that begins with a colon while a label is pending, lines 223-231
PendingLine(m, i, s) ==
    LET value == Strip(Tail(s))
        m1 == [m EXCEPT !.skip_idx = @ \cup {i}, !.pending_label = None]
    IN  IF m.pending_label = Some("title") /\ value # << >>
        THEN [m1 EXCEPT !.title = Some(value)]
        ELSE IF m.pending_label = Some("author") /\ value # << >>
        THEN [m1 EXCEPT !.author = Some(value)]
        ELSE m1

\* one iteration of the second loop of parse_metadata on lines[i], lines 173-241
ScanLine(m, ls, i) ==
    LET raw == ls[i]
        s == Strip(raw)
        lm == LABEL_RE(s)
        tm == TITLE_ONLY_RE(s)
    IN  IF s = << >>
        THEN IF m.in_intro /\ m.intro_lines # << >> THEN [m EXCEPT !.in_intro = FALSE] ELSE m
        ELSE IF m.in_intro
        THEN IF is_heading(raw, PrevOf(ls, i), NextOf(ls, i))
             THEN [m EXCEPT !.break = TRUE]
             ELSE [m EXCEPT !.intro_lines = Append(@, s), !.skip_idx = @ \cup {i}]
        ELSE IF ~IsNone(lm)
        THEN LabelLine(m, i, Get(lm).label, Strip(Get(lm).value))
        ELSE IF s \in BARE_TITLE
        THEN [m EXCEPT !.pending_label = Some("title"), !.skip_idx = @ \cup {i}]
        ELSE IF s \in BARE_AUTHOR
        THEN [m EXCEPT !.pending_label = Some("author"), !.skip_idx = @ \cup {i}]
        ELSE IF s \in BARE_INTRO
        THEN [m EXCEPT !.in_intro = TRUE, !.skip_idx = @ \cup {i}]
        ELSE IF ~IsNone(m.pending_label) /\ s[1] \in COLONS
        THEN PendingLine(m, i, s)
        ELSE IF ~IsNone(tm) /\ IsNone(m.title)
        THEN [m EXCEPT !.title = Some(Strip(Get(tm))), !.skip_idx = @ \cup {i}]
        ELSE LET seen == m.non_empty_seen + 1
             IN  [m EXCEPT !.non_empty_seen = seen,
                           !.candidates = IF seen <= CANDIDATE_WINDOW /\ ~SKIP_CANDIDATE_RE(s)
                                          THEN Append(@, <<i, s>>) ELSE @]

\* TitleFromCandidates with the chosen line left in the body
TitleFromCandidates_kept(m) ==
    IF IsNone(m.title) /\ m.candidates # << >>
    THEN [m EXCEPT !.title = Some(m.candidates[1][2])]
    ELSE m

\* lines 243-246
TitleFromCandidates(m) ==
    IF IsNone(m.title) /\ m.candidates # << >>
    THEN [m EXCEPT !.title = Some(m.candidates[1][2]), !.skip_idx = @ \cup {m.candidates[1][1]}]
    ELSE m

\* lines 248-252
AuthorFromCandidates(m) ==
    IF IsNone(m.author) /\ Len(m.candidates) >= 2 /\ Some(m.candidates[2][2]) # m.title
    THEN [m EXCEPT !.author = Some(m.candidates[2][2]), !.skip_idx = @ \cup {m.candidates[2][1]}]
    ELSE m

\* "\n".join(intro_lines)
RECURSIVE JoinNL(_)
JoinNL(ss) == IF ss = << >> THEN << >>
              ELSE IF Len(ss) = 1 THEN ss[1]
              ELSE ss[1] \o <<"NL">> \o JoinNL(Tail(ss))

\* line 254
Intro(m) == IF m.intro_lines # << >> THEN Some(Strip(JoinNL(m.intro_lines))) ELSE None

\* a str or an Optional[str] is true when it is neither None nor ""
Truthy(o) == ~IsNone(o) /\ Get(o) # << >>

-----------------------------------------------------------------------------
(* parse_book *)

normalize_content_line(line) ==
    LET s == Strip(line)
    IN  IF s = << >> THEN << >> ELSE Remove(s, "IDSP")

\* KeepFrom with the index set read one position off
RECURSIVE KeepFrom_shifted(_, _, _)
KeepFrom_shifted(ls, skip, i) ==
    IF i > Len(ls) THEN << >>
    ELSE (IF i - 1 \in skip THEN << >> ELSE <<ls[i]>>) \o KeepFrom_shifted(ls, skip, i + 1)

\* [line for idx, line in enumerate(lines) if idx not in skip_idx]
RECURSIVE KeepFrom(_, _, _)
KeepFrom(ls, skip, i) ==
    IF i > Len(ls) THEN << >>
    ELSE (IF i \in skip THEN << >> ELSE <<ls[i]>>) \o KeepFrom(ls, skip, i + 1)

\* while body_lines and not body_lines[0].strip(): body_lines.pop(0)
RECURSIVE DropLeadingBlank(_)
DropLeadingBlank(ls) ==
    IF ls # << >> /\ Strip(Head(ls)) = << >> THEN DropLeadingBlank(Tail(ls)) ELSE ls

BodyLines(ls, skip) == DropLeadingBlank(KeepFrom(ls, skip, 1))

\* TitleOr with "is not None" for the truth test
TitleOr_notnone(title, fallback) == IF ~IsNone(title) THEN Get(title) ELSE fallback

\* title or source_name
TitleOr(title, fallback) == IF Truthy(title) THEN Get(title) ELSE fallback

NewBook(title, author, intro, fallback) ==
    [title |-> TitleOr(title, fallback), author |-> author, intro |-> intro,
     volumes |-> << >>, root_chapters |-> << >>, spine |-> << >>]

NewVolume(heading) ==
    [kind |-> "Volume", title |-> heading, lines |-> << >>, chapters |-> << >>,
     file_name |-> << >>, item_id |-> << >>]

NewChapter(heading, volume) ==
    [kind |-> "Chapter", title |-> heading, lines |-> << >>, volume |-> volume,
     file_name |-> << >>, item_id |-> << >>]

DEFAULT_TITLE == <<"ZHENG", "WEN">>

\* The assembler's state st is [book, heap, current_volume, current_chapter];
\* an object reference is its index in heap.
\* start_volume with the Volume inserted at the head of the spine
start_volume_head(st, heading) ==
    LET ref == Len(st.heap) + 1
    IN  [st EXCEPT !.heap = Append(@, NewVolume(heading)),
                   !.book.volumes = Append(@, ref),
                   !.book.spine = <<ref>> \o @,
                   !.current_volume = Some(ref)]

start_volume(st, heading) ==
    LET ref == Len(st.heap) + 1
    IN  [st EXCEPT !.heap = Append(@, NewVolume(heading)),
                   !.book.volumes = Append(@, ref),
                   !.book.spine = Append(@, ref),
                   !.current_volume = Some(ref)]

\* start_chapter with the chapter of a volume listed among the root chapters too
start_chapter_root(st, heading, volume) ==
    LET ref == Len(st.heap) + 1
        hp == Append(st.heap, NewChapter(heading, volume))
    IN  [st EXCEPT !.heap = IF ~IsNone(volume)
                            THEN [hp EXCEPT ![Get(volume)].chapters = Append(@, ref)]
                            ELSE hp,
                   !.book.root_chapters = Append(@, ref),
                   !.book.spine = Append(@, ref),
                   !.current_chapter = Some(ref)]

start_chapter(st, heading, volume) ==
    LET ref == Len(st.heap) + 1
        hp == Append(st.heap, NewChapter(heading, volume))
    IN  IF ~IsNone(volume)
        THEN [st EXCEPT !.heap = [hp EXCEPT ![Get(volume)].chapters = Append(@, ref)],
                        !.book.spine = Append(@, ref),
                        !.current_chapter = Some(ref)]
        ELSE [st EXCEPT !.heap = hp,
                        !.book.root_chapters = Append(@, ref),
                        !.book.spine = Append(@, ref),
                        !.current_chapter = Some(ref)]

AppendLine(st, ref, content) == [st EXCEPT !.heap[ref].lines = Append(@, content)]

\* lines 309-318: where a content line goes
ContentLine(st, content) ==
    IF ~IsNone(st.current_chapter)
    THEN AppendLine(st, Get(st.current_chapter), content)
    ELSE IF ~IsNone(st.current_volume)
    THEN AppendLine(st, Get(st.current_volume), content)
    ELSE LET st1 == IF st.book.root_chapters = << >>
                    THEN start_chapter(st, DEFAULT_TITLE, None)
                    ELSE [st EXCEPT !.current_chapter =
                              Some(st.book.root_chapters[Len(st.book.root_chapters)])]
         IN  AppendLine(st1, Get(st1.current_chapter), content)

\* AssembleLine with current_chapter left open at a volume heading
AssembleLine_open(st, ls, k) ==
    LET line == ls[k]
        heading_type == classify_heading(line, PrevOf(ls, k), NextOf(ls, k))
        content == normalize_content_line(line)
    IN  IF heading_type = Some("volume")
        THEN start_volume(st, Strip(line))
        ELSE IF heading_type = Some("chapter")
        THEN start_chapter(st, Strip(line), st.current_volume)
        ELSE IF content = << >> THEN st
        ELSE ContentLine(st, content)

\* one iteration of the assembler loop on body_lines[k], lines 293-318
AssembleLine(st, ls, k) ==
    LET line == ls[k]
        heading_type == classify_heading(line, PrevOf(ls, k), NextOf(ls, k))
        content == normalize_content_line(line)
    IN  IF heading_type = Some("volume")
        THEN start_volume([st EXCEPT !.current_chapter = None], Strip(line))
        ELSE IF heading_type = Some("chapter")
        THEN start_chapter(st, Strip(line), st.current_volume)
        ELSE IF content = << >> THEN st
        ELSE ContentLine(st, content)

-----------------------------------------------------------------------------
(* build_nav_items and build_epub *)

NavItem(section) == [title |-> section.title, href |-> section.file_name, children |-> << >>]

\* NavLoop with every chapter appended to the top level
RECURSIVE NavLoop_flat(_, _, _, _, _)
NavLoop_flat(bk, hp, k, items, cur) ==
    IF k > Len(bk.spine) THEN items
    ELSE NavLoop_flat(bk, hp, k + 1, Append(items, NavItem(hp[bk.spine[k]])), cur)

\* The loop of build_nav_items over spine[k..]; cur is the position in items of
\* current_volume_item (0 when it is None).
RECURSIVE NavLoop(_, _, _, _, _)
NavLoop(bk, hp, k, items, cur) ==
    IF k > Len(bk.spine) THEN items
    ELSE LET section == hp[bk.spine[k]]
         IN  IF section.kind = "Volume"
             THEN NavLoop(bk, hp, k + 1, Append(items, NavItem(section)), Len(items) + 1)
             ELSE IF ~IsNone(section.volume) /\ cur # 0
             THEN NavLoop(bk, hp, k + 1,
                          [items EXCEPT ![cur].children = Append(@, NavItem(section))], cur)
             ELSE NavLoop(bk, hp, k + 1, Append(items, NavItem(section)), cur)

build_nav_items(bk, hp) == NavLoop(bk, hp, 1, << >>, 0)

DigitChar(d) == CASE d = 0 -> "0" [] d = 1 -> "1" [] d = 2 -> "2" [] d = 3 -> "3"
                  [] d = 4 -> "4" [] d = 5 -> "5" [] d = 6 -> "6" [] d = 7 -> "7"
                  [] d = 8 -> "8" [] d = 9 -> "9"

RECURSIVE Decimal(_)
Decimal(n) == IF n < 10 THEN <<DigitChar(n)>> ELSE Decimal(n \div 10) \o <<DigitChar(n % 10)>>

RECURSIVE ZeroPad(_, _)
ZeroPad(s, width) == IF Len(s) >= width THEN s ELSE ZeroPad(<<"0">> \o s, width)

SECTION_WIDTH == 4

\* f"section_{idx:04d}" and f"text/section_{idx:04d}.xhtml"; a literal piece is one token
ItemId(n) == <<"section_">> \o ZeroPad(Decimal(n), SECTION_WIDTH)
FileName(n) == <<"text/">> \o ItemId(n) \o <<".xhtml">>

NewFrontMatter(bk) ==
    [kind |-> "FrontMatter", title |-> bk.title, author |-> bk.author, intro |-> bk.intro,
     file_name |-> << >>, item_id |-> << >>]

\* if book.title or book.author or book.intro
HasFrontMatter(bk) == bk.title # << >> \/ Truthy(bk.author) \/ Truthy(bk.intro)

\* SpineSections with the front matter appended after the spine
SpineSections_last(bk, hp) ==
    bk.spine \o (IF HasFrontMatter(bk) THEN <<Len(hp) + 1>> ELSE << >>)

\* lines 421-424
SpineSections(bk, hp) ==
    (IF HasFrontMatter(bk) THEN <<Len(hp) + 1>> ELSE << >>) \o bk.spine

\* lines 426-432: number the sections from 1
RECURSIVE Annotate(_, _, _)
Annotate(hp, sections, n) ==
    IF n > Len(sections) THEN hp
    ELSE Annotate([hp EXCEPT ![sections[n]].file_name = FileName(n),
                             ![sections[n]].item_id = ItemId(n)], sections, n + 1)

FIXED_MANIFEST == << [id |-> <<"nav">>, href |-> <<"nav.xhtml">>],
                     [id |-> <<"css">>, href |-> <<"style.css">>],
                     [id |-> <<"ncx">>, href |-> <<"toc.ncx">>] >>

\* the heap and the package after build_epub, lines 417-475
build_epub(bk, hp) ==
    LET hp0 == IF HasFrontMatter(bk) THEN Append(hp, NewFrontMatter(bk)) ELSE hp
        section_files == SpineSections(bk, hp)
        hp1 == Annotate(hp0, section_files, 1)
    IN  [heap |-> hp1,
         section_files |-> section_files,
         nav_items |-> build_nav_items(bk, hp1),
         manifest_items |-> FIXED_MANIFEST \o
             [n \in 1..Len(section_files) |->
                 [id |-> hp1[section_files[n]].item_id, href |-> hp1[section_files[n]].file_name]],
         spine_items |-> [n \in 1..Len(section_files) |-> hp1[section_files[n]].item_id]]

-----------------------------------------------------------------------------
(* read_text: bytes are 0..255, text is a sequence of code points *)

\* ENCODING_CANDIDATES with gb18030 tried before UTF-8
ENCODING_CANDIDATES_gbfirst == <<"gb18030", "utf-8-sig", "utf-8">>

ENCODING_CANDIDATES == <<"utf-8-sig", "utf-8", "gb18030">>
BOM_UTF8 == <<239, 187, 191>>
REPLACEMENT == 65533

\* length of the UTF-8 sequence a lead byte opens, 0 for a byte that opens none
Utf8Need(b) == IF b < 128 THEN 1
               ELSE IF b \in 194..223 THEN 2
               ELSE IF b \in 224..239 THEN 3
               ELSE IF b \in 240..244 THEN 4
               ELSE 0

\* the bytes allowed at offset j after lead byte b
Utf8Trail(b, j) == IF j > 1 THEN 128..191
                   ELSE IF b = 224 THEN 160..191
                   ELSE IF b = 237 THEN 128..159
                   ELSE IF b = 240 THEN 144..191
                   ELSE IF b = 244 THEN 128..143
                   ELSE 128..191

\* how many of the bytes after bs[i] continue the sequence bs[i] opens
RECURSIVE Utf8Good(_, _, _)
Utf8Good(bs, i, j) ==
    IF j < Utf8Need(bs[i]) /\ i + j <= Len(bs) /\ bs[i + j] \in Utf8Trail(bs[i], j)
    THEN Utf8Good(bs, i, j + 1) ELSE j - 1

Utf8CodePoint(bs, i) ==
    LET n == Utf8Need(bs[i])
    IN  IF n = 1 THEN bs[i]
        ELSE IF n = 2 THEN (bs[i] - 192) * 64 + (bs[i + 1] - 128)
        ELSE IF n = 3 THEN (bs[i] - 224) * 4096 + (bs[i + 1] - 128) * 64 + (bs[i + 2] - 128)
        ELSE (bs[i] - 240) * 262144 + (bs[i + 1] - 128) * 4096 + (bs[i + 2] - 128) * 64
             + (bs[i + 3] - 128)

\* bytes.decode("utf-8", errors): None is UnicodeDecodeError
RECURSIVE Utf8Decode(_, _, _)
Utf8Decode(bs, i, replace) ==
    IF i > Len(bs) THEN Some(<< >>)
    ELSE LET n == Utf8Need(bs[i])
             good == Utf8Good(bs, i, 1)
         IN  IF n > 0 /\ good = n - 1
             THEN LET rest == Utf8Decode(bs, i + n, replace)
                  IN  IF IsNone(rest) THEN None
                      ELSE Some(<<Utf8CodePoint(bs, i)>> \o Get(rest))
             ELSE IF replace
             THEN LET rest == Utf8Decode(bs, i + 1 + good, replace)
                  IN  Some(<<REPLACEMENT>> \o Get(rest))
             ELSE None

\* the two-byte table of gb18030, on the bytes of BYTES
GB_TWO_BYTE(a, b) ==
    CASE a = 202 -> (CASE b = 65 -> 34052 [] b = 202 -> 36866 [] b = 233 -> 20070
                       [] b = 239 -> 26329 [] b = 187 -> 39542 [] b = 191 -> 22763)
      [] a = 233 -> (CASE b = 65 -> 38195 [] b = 202 -> 27117 [] b = 233 -> 27546
                       [] b = 239 -> 36721 [] b = 187 -> 27035 [] b = 191 -> 27053)
      [] a = 239 -> (CASE b = 65 -> 39024 [] b = 202 -> 38200 [] b = 233 -> 38249
                       [] b = 239 -> 38258 [] b = 187 -> 38168 [] b = 191 -> 38175)
      [] a = 187 -> (CASE b = 65 -> 31812 [] b = 202 -> 30343 [] b = 233 -> 23130
                       [] b = 239 -> 20249 [] b = 187 -> 25442 [] b = 191 -> 35938)
      [] a = 191 -> (CASE b = 65 -> 32252 [] b = 202 -> 28212 [] b = 233 -> 22359
                       [] b = 239 -> 21281 [] b = 187 -> 28821 [] b = 191 -> 38752)

\* bytes.decode("gb18030"): a four-byte form needs a digit byte, which BYTES does not hold
RECURSIVE Gb18030Decode(_, _)
Gb18030Decode(bs, i) ==
    IF i > Len(bs) THEN Some(<< >>)
    ELSE IF bs[i] < 128
    THEN LET rest == Gb18030Decode(bs, i + 1)
         IN  IF IsNone(rest) THEN None ELSE Some(<<bs[i]>> \o Get(rest))
    ELSE IF /\ bs[i] \in 129..254
            /\ i + 1 <= Len(bs)
            /\ bs[i + 1] \in (64..126) \cup (128..254)
    THEN LET rest == Gb18030Decode(bs, i + 2)
         IN  IF IsNone(rest) THEN None
             ELSE Some(<<GB_TWO_BYTE(bs[i], bs[i + 1])>> \o Get(rest))
    ELSE None

\* data.decode(enc)
Decode(bs, e) ==
    IF e = "utf-8-sig"
    THEN IF Len(bs) >= 3 /\ SubSeq(bs, 1, 3) = BOM_UTF8
         THEN Utf8Decode(SubSeq(bs, 4, Len(bs)), 1, FALSE)
         ELSE Utf8Decode(bs, 1, FALSE)
    ELSE IF e = "utf-8" THEN Utf8Decode(bs, 1, FALSE)
    ELSE Gb18030Decode(bs, 1)

\* data.decode("utf-8", errors="replace")
DecodeReplace(bs) == Get(Utf8Decode(bs, 1, TRUE))

-----------------------------------------------------------------------------
(* Inputs *)

MaxLines == 4
MaxMetaLines == 3
MaxBytes == 4

BYTES == {65, 202, 233, 255, 239, 187, 191}

\* blank; 第一章; 第二卷; a; " b<U+3000>c"; 第三章<U+3000>a。
STRUCT_LINES ==
    { << >>,
      <<"DI", "YI", "ZHANG">>,
      <<"DI", "ER", "JUAN">>,
      <<"a">>,
      <<"SP", "b", "IDSP", "c">>,
      <<"DI", "SAN", "ZHANG", "IDSP", "a", "PERIOD">> }

\* blank; 书名：t; 书名:; 作者; 作<sp><sp>者：b; 作<sp>者:b; ：c; 简介:d; 《e》; 《 》; a; 群;
\* 第一章; 第三章a。
META_LINES ==
    { << >>,
      <<"SHU", "MING", "CCOLON", "t">>,
      <<"SHU", "MING", "COLON">>,
      <<"ZUO", "ZHE">>,
      <<"ZUO", "SP", "SP", "ZHE", "CCOLON", "b">>,
      <<"ZUO", "SP", "ZHE", "COLON", "b">>,
      <<"CCOLON", "c">>,
      <<"JIAN", "JIE4", "COLON", "d">>,
      <<"LB", "e", "RB">>,
      <<"LB", "SP", "RB">>,
      <<"a">>,
      <<"QUN">>,
      <<"DI", "YI", "ZHANG">>,
      <<"DI", "SAN", "ZHANG", "a", "PERIOD">> }

SeqsUpTo(S, n) == UNION { [1..k -> S] : k \in 0..n }

\* a run of n letters
Filler(n) == [k \in 1..n |-> "x"]

\* lines for the classifier: headings of every rule, short and long, with and without
\* a sentence end or commas, and lines that match no rule
CLASSIFY_LINES ==
    { << >>,
      <<"SP">>,
      <<"a">>,
      <<"a", "PERIOD">>,
      <<"DI", "YI", "ZHANG">>,
      <<"SP", "DI", "SP", "1", "2", "IDSP", "JIE", "a", "SP">>,
      <<"DI", "SHI", "HUI", "a", "QUES">>,
      <<"DI", "YI", "ZHANG", "a", "CCOMMA", "a">>,
      <<"DI", "YI", "ZHANG", "a", "CCOMMA", "a", "COMMA", "a">>,
      <<"DI", "YI", "ZHANG">> \o Filler(HEADING_MAX_LEN - 3),
      <<"DI", "YI", "ZHANG">> \o Filler(HEADING_MAX_LEN - 2),
      <<"c", "H", "a", "p", "t", "e", "r", "SP", "7">>,
      <<"c", "H", "a", "p", "t", "e", "r", "7">>,
      <<"XU">>,
      <<"XU", "CCOLON", "a", "EXCL">>,
      <<"XU", "a">>,
      <<"FAN", "WAI", "PIAN", "SP", "a", "COMMA", "a", "COMMA">>,
      <<"DI", "ER", "JUAN">>,
      <<"JUAN", "SP", "YI", "a", "PERIOD">>,
      <<"DI", "SAN", "BU", "CCOMMA", "a", "CCOMMA">>,
      <<"JUAN", "a">>,
      <<"DI", "a", "ZHANG">> }

CLASSIFY_NEIGHBOURS == { None, Some(<< >>), Some(<<"IDSP", "SP">>), Some(<<"a">>) }

-----------------------------------------------------------------------------
(* The program *)

ParseIdle ==
    /\ lines = << >>
    /\ source_name = << >>
    /\ meta = None
    /\ body_lines = << >>
    /\ book = None
    /\ heap = << >>
    /\ current_volume = None
    /\ current_chapter = None
    /\ idx = 0
    /\ epub = None

ReadIdle == data = << >> /\ enc = 0 /\ text = None

ClassifyIdle == h_line = << >> /\ h_prev = None /\ h_next = None /\ h_type = None

\* parse_book(text, source_name) is entered with lines = text.splitlines()
ParseEntered(ls, name) ==
    /\ pc = "parse_book"
    /\ lines = ls
    /\ source_name = name
    /\ meta = None
    /\ body_lines = << >>
    /\ book = None
    /\ heap = << >>
    /\ current_volume = None
    /\ current_chapter = None
    /\ idx = 0
    /\ epub = None
    /\ ReadIdle
    /\ ClassifyIdle

Init == \E ls \in SeqsUpTo(STRUCT_LINES, MaxLines) : ParseEntered(ls, <<"f", "b">>)

InitMeta ==
    \E ls \in SeqsUpTo(META_LINES, MaxMetaLines) : \E name \in { << >>, <<"f", "b">> } :
        ParseEntered(ls, name)

InitRead ==
    /\ pc = "read_text"
    /\ data \in SeqsUpTo(BYTES, MaxBytes)
    /\ enc = 1
    /\ text = None
    /\ ParseIdle
    /\ ClassifyIdle

InitClassify ==
    /\ pc = "classify_heading"
    /\ h_line \in CLASSIFY_LINES
    /\ h_prev \in CLASSIFY_NEIGHBOURS
    /\ h_next \in CLASSIFY_NEIGHBOURS
    /\ h_type = None
    /\ ParseIdle
    /\ ReadIdle

\* parse_metadata, lines 153-170: the locals and the first loop
MetadataEnter ==
    /\ pc = "parse_book"
    /\ meta' = [MetaLocals EXCEPT !.scan_limit = ScanLimit(lines)]
    /\ pc' = "scan"
    /\ UNCHANGED <<lines, source_name, body_lines, book, heap, current_volume,
                   current_chapter, idx, epub, readVars, classifyVars>>

\* parse_metadata, lines 172-241: one iteration of the second loop
MetadataScan ==
    /\ pc = "scan"
    /\ meta.i <= meta.scan_limit
    /\ ~meta.break
    /\ meta' = [ScanLine(meta, lines, meta.i) EXCEPT !.i = @ + 1]
    /\ UNCHANGED <<pc, lines, source_name, body_lines, book, heap, current_volume,
                   current_chapter, idx, epub, readVars, classifyVars>>

\* parse_metadata, lines 243-255: the loop is left, the candidates are used
MetadataReturn ==
    /\ pc = "scan"
    /\ meta.i > meta.scan_limit \/ meta.break
    /\ meta' = LET m == AuthorFromCandidates(TitleFromCandidates(meta))
               IN  [m EXCEPT !.intro = Intro(m)]
    /\ pc' = "filter"
    /\ UNCHANGED <<lines, source_name, body_lines, book, heap, current_volume,
                   current_chapter, idx, epub, readVars, classifyVars>>

\* parse_book, lines 269-276
FilterBody ==
    /\ pc = "filter"
    /\ body_lines' = BodyLines(lines, meta.skip_idx)
    /\ book' = NewBook(meta.title, meta.author, meta.intro, source_name)
    /\ heap' = << >>
    /\ current_volume' = None
    /\ current_chapter' = None
    /\ idx' = 1
    /\ pc' = "assemble"
    /\ UNCHANGED <<lines, source_name, meta, epub, readVars, classifyVars>>

\* parse_book, lines 293-318: one iteration of the assembler loop
Assemble ==
    /\ pc = "assemble"
    /\ idx <= Len(body_lines)
    /\ LET st == AssembleLine([book |-> book, heap |-> heap,
                               current_volume |-> current_volume,
                               current_chapter |-> current_chapter], body_lines, idx)
       IN  /\ book' = st.book
           /\ heap' = st.heap
           /\ current_volume' = st.current_volume
           /\ current_chapter' = st.current_chapter
    /\ idx' = idx + 1
    /\ UNCHANGED <<pc, lines, source_name, meta, body_lines, epub, readVars, classifyVars>>

\* parse_book, line 320
ParseBookReturn ==
    /\ pc = "assemble"
    /\ idx > Len(body_lines)
    /\ pc' = "build_epub"
    /\ UNCHANGED <<parseVars, readVars, classifyVars>>

\* build_epub, lines 417-475
BuildEpub ==
    /\ pc = "build_epub"
    /\ LET r == build_epub(book, heap)
       IN  /\ heap' = r.heap
           /\ epub' = [section_files |-> r.section_files, nav_items |-> r.nav_items,
                       manifest_items |-> r.manifest_items, spine_items |-> r.spine_items]
    /\ pc' = "done"
    /\ UNCHANGED <<lines, source_name, meta, body_lines, book, current_volume,
                   current_chapter, idx, readVars, classifyVars>>

\* read_text, lines 103-107: one candidate encoding is tried
TryEncoding ==
    /\ pc = "read_text"
    /\ enc <= Len(ENCODING_CANDIDATES)
    /\ LET r == Decode(data, ENCODING_CANDIDATES[enc])
       IN  IF IsNone(r)
           THEN /\ enc' = enc + 1
                /\ UNCHANGED <<pc, text>>
           ELSE /\ text' = r
                /\ pc' = "returned"
                /\ UNCHANGED enc
    /\ UNCHANGED <<data, parseVars, classifyVars>>

\* read_text, line 108
ReplaceFallback ==
    /\ pc = "read_text"
    /\ enc > Len(ENCODING_CANDIDATES)
    /\ text' = Some(DecodeReplace(data))
    /\ pc' = "returned"
    /\ UNCHANGED <<data, enc, parseVars, classifyVars>>

\* classify_heading, lines 136-149
Classify ==
    /\ pc = "classify_heading"
    /\ h_type' = classify_heading(h_line, h_prev, h_next)
    /\ pc' = "classified"
    /\ UNCHANGED <<h_line, h_prev, h_next, parseVars, readVars>>

Next ==
    \/ MetadataEnter
    \/ MetadataScan
    \/ MetadataReturn
    \/ FilterBody
    \/ Assemble
    \/ ParseBookReturn
    \/ BuildEpub

NextRead == TryEncoding \/ ReplaceFallback

NextClassify == Classify

Spec == Init /\ [][Next]_vars
SpecMeta == InitMeta /\ [][Next]_vars
SpecRead == InitRead /\ [][NextRead]_vars
SpecClassify == InitClassify /\ [][NextClassify]_vars

-----------------------------------------------------------------------------
(* Vocabulary of the properties *)

Range(q) == { q[k] : k \in 1..Len(q) }
NoDup(q) == \A j, k \in 1..Len(q) : q[j] = q[k] => j = k
Pos(q, x) == CHOOSE k \in 1..Len(q) : q[k] = x

\* a has no repetition and its elements occur in b in the same relative order
IsSubseq(a, b) ==
    /\ NoDup(a)
    /\ Range(a) \subseteq Range(b)
    /\ \A j, k \in 1..Len(a) : j < k => Pos(b, a[j]) < Pos(b, a[k])


Assembled == pc \in {"assemble", "build_epub", "done"}
Parsed == pc \in {"build_epub", "done"}

Volumes == { r \in 1..Len(heap) : heap[r].kind = "Volume" }
Chapters == { r \in 1..Len(heap) : heap[r].kind = "Chapter" }

\* the decision of the assembler on body_lines[k]
BodyType(k) == classify_heading(body_lines[k], PrevOf(body_lines, k), NextOf(body_lines, k))

\* The spine entries the document calls for, as <<kind, title>>, from body_lines[k..]:
\* one per heading line, and the default chapter at the first content line when
\* nothing has been opened before it.
RECURSIVE DocEntries(_, _)
DocEntries(k, opened) ==
    IF k > Len(body_lines) THEN << >>
    ELSE IF BodyType(k) = Some("volume")
    THEN << <<"Volume", Strip(body_lines[k])>> >> \o DocEntries(k + 1, TRUE)
    ELSE IF BodyType(k) = Some("chapter")
    THEN << <<"Chapter", Strip(body_lines[k])>> >> \o DocEntries(k + 1, TRUE)
    ELSE IF normalize_content_line(body_lines[k]) # << >> /\ ~opened
    THEN << <<"Chapter", <<"ZHENG", "WEN">> >> >> \o DocEntries(k + 1, TRUE)
    ELSE DocEntries(k + 1, opened)

-----------------------------------------------------------------------------
(* C1 *)

\* C1: the spine holds exactly the Volumes of book.volumes and the Chapters of
\* book.root_chapters and of every Volume.chapters, each once and nothing else;
\* root_chapters, volumes and each Volume.chapters are subsequences of the spine; and
\* once parse_book has returned the spine lists the entries in the order of their
\* heading lines (or of the line that made the default chapter) in the document.
C1_SpineIsDocumentOrder ==
    Assembled =>
        /\ NoDup(book.spine)
        /\ Range(book.spine) = Volumes \cup Chapters
        /\ Range(book.volumes) = Volumes
        /\ Range(book.root_chapters) \cup UNION { Range(heap[v].chapters) : v \in Volumes }
               = Chapters
        /\ IsSubseq(book.volumes, book.spine)
        /\ IsSubseq(book.root_chapters, book.spine)
        /\ \A v \in Volumes : IsSubseq(heap[v].chapters, book.spine)
        /\ \A v, w \in Volumes : v # w => Range(heap[v].chapters) \cap Range(heap[w].chapters) = {}
        /\ Parsed =>
              [k \in 1..Len(book.spine) |->
                  <<heap[book.spine[k]].kind, heap[book.spine[k]].title>>] = DocEntries(1, FALSE)

\* a parsed book with a root chapter, then a volume, then a chapter of it
C1_Witness ==
    /\ pc = "build_epub"
    /\ Len(book.spine) >= 3
    /\ book.root_chapters # << >>
    /\ \E v \in Volumes : heap[v].chapters # << >>

-----------------------------------------------------------------------------
(* C2 *)

\* C2: every Volume of the spine is followed at once by exactly its own chapters, in
\* order, as a run that ends at the next Volume or at the end of the spine; a chapter's
\* volume is V exactly when it is in V.chapters; no chapter is both a root chapter and
\* a chapter of a volume.
C2_VolumeRuns ==
    Assembled =>
        /\ \A p \in 1..Len(book.spine) :
              heap[book.spine[p]].kind = "Volume" =>
                  LET v == book.spine[p]
                      n == Len(heap[v].chapters)
                  IN  /\ p + n <= Len(book.spine)
                      /\ SubSeq(book.spine, p + 1, p + n) = heap[v].chapters
                      /\ \A k \in 1..n : heap[heap[v].chapters[k]].kind = "Chapter"
                      /\ p + n < Len(book.spine) => heap[book.spine[p + n + 1]].kind = "Volume"
        /\ \A c \in Chapters : \A v \in Volumes :
              (heap[c].volume = Some(v)) <=> (c \in Range(heap[v].chapters))
        /\ \A c \in Chapters : ~IsNone(heap[c].volume) => Get(heap[c].volume) \in Volumes
        /\ \A c \in Range(book.root_chapters) : \A v \in Volumes : c \notin Range(heap[v].chapters)
        /\ \A c \in Range(book.root_chapters) : IsNone(heap[c].volume)

\* a volume heading followed by two chapter headings: one Volume, two nested chapters,
\* no root chapter
C2_Witness ==
    /\ pc = "build_epub"
    /\ Len(book.volumes) = 1
    /\ Len(heap[book.volumes[1]].chapters) = 2
    /\ book.root_chapters = << >>

-----------------------------------------------------------------------------
(* C3 *)

C3_Candidate(s) ==
    IF CHAPTER_PATTERNS(s) \/ MatchSpecial(s) THEN Some("chapter")
    ELSE IF VOLUME_PATTERNS(s) THEN Some("volume")
    ELSE None

C3_NonBlank(o) == o # None /\ Strip(o[1]) # << >>

C3_Suspect(s) ==
    \/ s[Len(s)] \in {"PERIOD", "EXCL", "QUES"}
    \/ Len(s) > 40
    \/ Cardinality({ k \in 1..Len(s) : s[k] \in {"CCOMMA", "COMMA"} }) > 1

\* C3: for a line that matches a chapter rule, a special-heading keyword or a volume
\* rule, classify_heading returns no heading exactly when both neighbours exist and
\* are non-blank and the trimmed line ends in a sentence end, is longer than 40
\* characters or holds more than one comma; otherwise it returns the candidate type.
C3_PlausibilityFilter ==
    (pc = "classified" /\ C3_Candidate(Strip(h_line)) # None) =>
        LET s == Strip(h_line)
            rejected == C3_NonBlank(h_prev) /\ C3_NonBlank(h_next) /\ C3_Suspect(s)
        IN  /\ (h_type = None) <=> rejected
            /\ ~rejected => h_type = C3_Candidate(s)

\* a heading candidate between two non-blank lines, rejected for its length alone
C3_Witness ==
    /\ pc = "classified"
    /\ C3_Candidate(Strip(h_line)) = Some("chapter")
    /\ C3_NonBlank(h_prev)
    /\ C3_NonBlank(h_next)
    /\ Len(Strip(h_line)) = 41
    /\ h_type = None

-----------------------------------------------------------------------------
(* C4 *)

C4_IsMetadataLine(s) ==
    \/ LABEL_RE(s) # None
    \/ s \in BARE_TITLE \cup BARE_AUTHOR \cup BARE_INTRO
    \/ TITLE_ONLY_RE(s) # None

\* no label line, no bare label, no line 《Title》, and no line that either pass
\* accepts as a heading
C4_Plain ==
    /\ \A i \in 1..Len(lines) : ~C4_IsMetadataLine(Strip(lines[i]))
    /\ \A i \in 1..Len(lines) : ~is_heading(lines[i], PrevOf(lines, i), NextOf(lines, i))
    /\ \A k \in 1..Len(body_lines) : BodyType(k) = None

\* the non-blank lines of ls[i..] whose index is not in skip, normalized
RECURSIVE C4_Content(_, _, _)
C4_Content(ls, skip, i) ==
    IF i > Len(ls) THEN << >>
    ELSE (IF i \notin skip /\ normalize_content_line(ls[i]) # << >>
          THEN <<normalize_content_line(ls[i])>> ELSE << >>) \o C4_Content(ls, skip, i + 1)

\* the lines the candidate heuristic can take: non-blank, without a boilerplate marker
C4_Candidates == { i \in 1..Len(lines) : Strip(lines[i]) # << >> /\ ~SKIP_CANDIDATE_RE(Strip(lines[i])) }

C4_OneDefaultChapter(content) ==
    /\ Len(book.root_chapters) = 1
    /\ heap[book.root_chapters[1]].title = <<"ZHENG", "WEN">>
    /\ heap[book.root_chapters[1]].lines = content

\* C4 as claimed: with no metadata and no heading the Book has no Volume and exactly
\* one root chapter, titled 正文, that holds all the non-blank lines of the input,
\* normalized, in document order.
C4_AllLinesInDefaultChapter ==
    (Parsed /\ C4_Plain) =>
        /\ book.volumes = << >>
        /\ C4_OneDefaultChapter(C4_Content(lines, {}, 1))

\* C4 as amended: with no metadata and no heading the Book has no Volume; the lines
\* taken by the candidate heuristic (the first candidate as the title, the second as
\* the author when its text differs) are consumed; if a non-blank line is left there is
\* exactly one root chapter, titled 正文, that holds the non-blank lines left,
\* normalized, in document order, and otherwise there is no root chapter.
C4_UnconsumedLinesInDefaultChapter ==
    (Parsed /\ C4_Plain) =>
        LET left == C4_Content(lines, meta.skip_idx, 1)
        IN  /\ book.volumes = << >>
            /\ meta.skip_idx \subseteq C4_Candidates
            /\ Cardinality(meta.skip_idx) <= 2
            /\ \A i \in C4_Candidates :
                  (\A j \in C4_Candidates : i <= j) =>
                      i \in meta.skip_idx /\ book.title = Strip(lines[i])
            /\ IF left = << >> THEN book.root_chapters = << >>
               ELSE C4_OneDefaultChapter(left)

\* three lines of text: the first two are taken as title and author, the third is the
\* content of the default chapter
C4_Witness ==
    /\ pc = "build_epub"
    /\ C4_Plain
    /\ Cardinality(meta.skip_idx) = 2
    /\ Len(book.root_chapters) = 1
    /\ Len(heap[book.root_chapters[1]].lines) >= 1

-----------------------------------------------------------------------------
(* C5 *)

\* the walk of the spine from position k: each title (but the default chapter's),
\* normalized, followed by the entry's lines
RECURSIVE C5_Walk(_)
C5_Walk(k) ==
    IF k > Len(book.spine) THEN << >>
    ELSE LET e == heap[book.spine[k]]
         IN  (IF e.kind = "Chapter" /\ e.title = <<"ZHENG", "WEN">>
              THEN << >> ELSE <<normalize_content_line(e.title)>>)
             \o e.lines \o C5_Walk(k + 1)

\* C5: walking the spine and emitting each title (but the default chapter's) and the
\* entry's lines yields, up to normalization, exactly the input lines that are not in
\* the consumed index set and are non-empty after normalization, in document order.
C5_RoundTrip ==
    Parsed => C5_Walk(1) = C4_Content(lines, meta.skip_idx, 1)

\* a consumed line, then a volume with an overflow line and a chapter
C5_Witness ==
    /\ pc = "build_epub"
    /\ meta.skip_idx # {}
    /\ \E v \in Volumes : heap[v].lines # << >> /\ heap[v].chapters # << >>

-----------------------------------------------------------------------------
(* C6 *)

\* C6: with a non-empty fallback name the title of the Book is non-empty: the title
\* the metadata pass recovered when that is non-empty, the fallback name otherwise
\* (also when the recovered title is the empty string); author and intro are the
\* recovered ones, None when missing, and never empty.
C6_TitleNeverUnset ==
    (Assembled /\ source_name # << >>) =>
        /\ book.title # << >>
        /\ book.title = IF meta.title # None /\ meta.title[1] # << >>
                        THEN meta.title[1] ELSE source_name
        /\ book.author = meta.author
        /\ book.intro = meta.intro
        /\ book.author # <<<< >>>>
        /\ book.intro # <<<< >>>>

\* a line 《 》 recovers the empty title; the Book carries the fallback name and no author
C6_Witness ==
    /\ pc = "done"
    /\ source_name # << >>
    /\ meta.title = <<<< >>>>
    /\ book.title = source_name
    /\ book.author = None
    /\ book.intro = None

-----------------------------------------------------------------------------
(* C7 *)

\* section_0001, section_0002, ... written out for the sections a bounded input makes
C7_Id(k) == <<"section_", "0", "0", "0", <<"1", "2", "3", "4", "5", "6", "7", "8", "9">>[k]>>

C7_WantsFrontMatter ==
    \/ book.title # << >>
    \/ book.author # None /\ book.author[1] # << >>
    \/ book.intro # None /\ book.intro[1] # << >>

\* C7: build_epub emits one section per spine entry plus, when the Book has a title,
\* an author or an intro, one front-matter section placed first; the sections are
\* numbered section_0001, section_0002, ... in that order, so their file names and
\* item ids are pairwise distinct; the package spine lists exactly these ids in that
\* order, and nav is never an itemref.
C7_SectionsNumbered ==
    pc = "done" =>
        LET sf == epub.section_files
        IN  /\ Len(sf) = Len(book.spine) + (IF C7_WantsFrontMatter THEN 1 ELSE 0)
            /\ C7_WantsFrontMatter =>
                  /\ heap[sf[1]].kind = "FrontMatter"
                  /\ SubSeq(sf, 2, Len(sf)) = book.spine
            /\ ~C7_WantsFrontMatter => sf = book.spine
            /\ \A k \in 1..Len(sf) :
                  /\ heap[sf[k]].item_id = C7_Id(k)
                  /\ heap[sf[k]].file_name = <<"text/">> \o C7_Id(k) \o <<".xhtml">>
                  /\ \E j \in 1..Len(epub.manifest_items) :
                        /\ epub.manifest_items[j].id = C7_Id(k)
                        /\ epub.manifest_items[j].href = heap[sf[k]].file_name
            /\ \A j, k \in 1..Len(sf) :
                  j # k => /\ heap[sf[j]].item_id # heap[sf[k]].item_id
                           /\ heap[sf[j]].file_name # heap[sf[k]].file_name
            /\ epub.spine_items = [k \in 1..Len(sf) |-> C7_Id(k)]
            /\ \A k \in 1..Len(epub.spine_items) : epub.spine_items[k] # <<"nav">>

\* a book with front matter and two spine entries
C7_Witness ==
    /\ pc = "done"
    /\ C7_WantsFrontMatter
    /\ Len(book.spine) >= 2
    /\ Len(epub.spine_items) = Len(book.spine) + 1

-----------------------------------------------------------------------------
(* C8 *)

C8_Item(r, children) ==
    [title |-> heap[r].title, href |-> heap[r].file_name, children |-> children]

\* the Volumes and the root chapters of spine[k..], in spine order
RECURSIVE C8_TopLevel(_)
C8_TopLevel(k) ==
    IF k > Len(book.spine) THEN << >>
    ELSE (IF heap[book.spine[k]].kind = "Volume" \/ book.spine[k] \in Range(book.root_chapters)
          THEN <<book.spine[k]>> ELSE << >>) \o C8_TopLevel(k + 1)

C8_Tree ==
    LET top == C8_TopLevel(1)
    IN  [k \in 1..Len(top) |->
            IF heap[top[k]].kind = "Volume"
            THEN C8_Item(top[k], [j \in 1..Len(heap[top[k]].chapters) |->
                                     C8_Item(heap[top[k]].chapters[j], << >>)])
            ELSE C8_Item(top[k], << >>)]

\* C8: the navigation tree mirrors the parentage of the model: every Volume is a
\* top-level item whose children are the chapters of its chapters list, in order, every
\* root chapter is a top-level item without children, nothing is nested deeper, and
\* both levels follow the spine.
C8_NavMirrorsParentage ==
    pc = "done" => epub.nav_items = C8_Tree

\* a root chapter, then a volume with a chapter under it
C8_Witness ==
    /\ pc = "done"
    /\ Len(epub.nav_items) = 2
    /\ epub.nav_items[1].children = << >>
    /\ Len(epub.nav_items[2].children) >= 1
    /\ book.root_chapters # << >>

-----------------------------------------------------------------------------
(* C9 *)

C9_Order == <<"utf-8-sig", "utf-8", "gb18030">>

\* the bytes gb18030 writes for a text of the characters of GB_TWO_BYTE and ASCII
RECURSIVE C9_GbBytes(_)
C9_GbBytes(t) ==
    IF t = << >> THEN << >>
    ELSE (IF Head(t) < 128 THEN <<Head(t)>>
          ELSE CHOOSE ab \in (BYTES \ {65, 255}) \X (BYTES \ {255}) :
                   GB_TWO_BYTE(ab[1], ab[2]) = Head(t))
         \o C9_GbBytes(Tail(t))

\* C9: read_text always returns a text: the decoding under the first encoding of
\* utf-8-sig, utf-8, gb18030 that decodes the bytes, a later encoding being tried only
\* after every earlier one failed, and the UTF-8 decoding with replacement characters
\* when all three fail; bytes that only gb18030 decodes come back as the characters
\* that gb18030 writes as those bytes.
C9_FirstEncodingThatDecodes ==
    /\ pc = "read_text" => \A k \in 1..(enc - 1) : Decode(data, C9_Order[k]) = None
    /\ pc = "returned" =>
          /\ text # None
          /\ \A k \in 1..3 : k < enc => Decode(data, C9_Order[k]) = None
          /\ enc <= 3 => text = Decode(data, C9_Order[enc])
          /\ enc > 3 => text = Some(DecodeReplace(data)) /\ REPLACEMENT \in Range(text[1])
          /\ (Decode(data, "utf-8-sig") = None /\ Decode(data, "utf-8") = None
                 /\ Decode(data, "gb18030") # None) =>
                /\ text = Decode(data, "gb18030")
                /\ C9_GbBytes(text[1]) = data

\* bytes that are not UTF-8 and that gb18030 decodes: the text is the gb18030 one
C9_Witness ==
    /\ pc = "returned"
    /\ enc = 3
    /\ data = <<202, 233, 65>>
    /\ text = Some(<<20070, 65>>)

-----------------------------------------------------------------------------
(* C10 *)

\* the assembler is at a body line that is no heading and is not empty once normalized
C10_AtContentLine ==
    /\ pc = "assemble"
    /\ idx <= Len(body_lines)
    /\ BodyType(idx) = None
    /\ normalize_content_line(body_lines[idx]) # << >>

\* C10: the assembler appends such a line to the entry that is last in the spine: the
\* open chapter, or the current Volume when no chapter was opened since its heading,
\* or, the spine being empty, a default root chapter 正文 made for it; the step makes
\* no other spine entry and changes no other object, so no chapter opened before a
\* volume heading receives a line after it.
C10_ContentGoesToLastEntry ==
    [][C10_AtContentLine =>
          LET content == normalize_content_line(body_lines[idx])
              last == book'.spine[Len(book'.spine)]
          IN  /\ book'.spine # << >>
              /\ IF book.spine = << >>
                 THEN /\ book'.spine = <<last>>
                      /\ book'.root_chapters = <<last>>
                      /\ book'.volumes = << >>
                      /\ Len(heap') = 1
                      /\ heap'[last] = [kind |-> "Chapter", title |-> <<"ZHENG", "WEN">>,
                                        lines |-> <<content>>, volume |-> None,
                                        file_name |-> << >>, item_id |-> << >>]
                 ELSE /\ book' = book
                      /\ Len(heap') = Len(heap)
                      /\ heap'[last].lines = Append(heap[last].lines, content)
                      /\ heap[last].kind = "Chapter" => current_chapter = Some(last)
                      /\ heap[last].kind = "Volume" =>
                            current_volume = Some(last) /\ current_chapter = None
              /\ \A r \in 1..Len(heap) : r # last => heap'[r] = heap[r]
              /\ \A p, q \in 1..Len(book.spine) :
                    (p < q /\ heap[book.spine[q]].kind = "Volume") =>
                        heap'[book.spine[p]] = heap[book.spine[p]]
    ]_vars

\* a chapter, a later Volume, and a line in the overflow buffer of that Volume
C10_Witness ==
    /\ Assembled
    /\ \E p, q \in 1..Len(book.spine) :
          /\ p < q
          /\ heap[book.spine[p]].kind = "Chapter"
          /\ heap[book.spine[q]].kind = "Volume"
          /\ heap[book.spine[q]].lines # << >>

-----------------------------------------------------------------------------
(* C11 *)

\* a line that leaves a title or author label pending: a label line of one of the two
\* with an empty value, or a bare label
C11_SetsPending(s) ==
    \/ s \in BARE_TITLE \cup BARE_AUTHOR
    \/ /\ ~IsNone(LABEL_RE(s))
       /\ Get(LABEL_RE(s)).label \in TITLE_LABELS \cup AUTHOR_LABELS
       /\ Strip(Get(LABEL_RE(s)).value) = << >>

\* a non-blank line that does not begin with a colon and leaves no label pending
C11_Other(s) ==
    /\ s # << >>
    /\ s[1] \notin COLONS
    /\ ~C11_SetsPending(s)

\* lines[i] begins with a colon and comes after a pending label and one or more other
\* non-blank lines
C11_LateColon(i) ==
    /\ Strip(lines[i]) # << >>
    /\ Strip(lines[i])[1] \in COLONS
    /\ \E p \in 1..(i - 2) :
          /\ C11_SetsPending(Strip(lines[p]))
          /\ \A k \in (p + 1)..(i - 1) : C11_Other(Strip(lines[k]))

\* C11: a pending title or author label is filled only by the line that follows it: the
\* scan of a line that begins with a colon and comes later, after one or more other
\* non-blank lines that do not begin with a colon, sets neither the title nor the
\* author and does not consume the line (unless as a line of the intro being collected).
C11_PendingFilledOnlyByNextLine ==
    [][(pc = "scan" /\ pc' = "scan" /\ meta'.i = meta.i + 1 /\ C11_LateColon(meta.i)) =>
          /\ meta'.title = meta.title
          /\ meta'.author = meta.author
          /\ meta.i \in meta'.skip_idx => meta.in_intro
    ]_vars

\* the scan has just passed such a late colon line outside the intro, and the line was
\* consumed and its value stored as the author
C11_Witness ==
    /\ pc = "scan"
    /\ meta.i > 1
    /\ C11_LateColon(meta.i - 1)
    /\ ~meta.in_intro
    /\ (meta.i - 1) \in meta.skip_idx
    /\ meta.author = Some(Strip(Tail(Strip(lines[meta.i - 1]))))

-----------------------------------------------------------------------------
(* C12 *)

\* the field a label of the pattern names: 书名 the title, 作者 or 作 and 者 separated by
\* any run of whitespace the author, the other four the synopsis
C12_Field(label) ==
    IF label = <<"SHU", "MING">> THEN "title"
    ELSE IF label[1] = "ZUO" /\ label[Len(label)] = "ZHE" THEN "author"
    ELSE "synopsis"

\* the scan is at a line, outside the intro, that the label pattern recognizes with a
\* non-empty value
C12_AtLabelLine ==
    /\ pc = "scan"
    /\ meta.i <= meta.scan_limit
    /\ ~meta.break
    /\ ~meta.in_intro
    /\ ~IsNone(LABEL_RE(Strip(lines[meta.i])))
    /\ Strip(Get(LABEL_RE(Strip(lines[meta.i]))).value) # << >>

\* C12: outside intro-collecting mode the scan of a label line with a non-empty value
\* sets the field of its own label and no other: a title label sets the title, an
\* author label in any spelling the pattern accepts sets the author, and only a
\* synopsis label adds its value to the intro buffer and enters intro-collecting mode.
C12_LabelSetsItsOwnField ==
    [][C12_AtLabelLine =>
          LET m == Get(LABEL_RE(Strip(lines[meta.i])))
              value == Strip(m.value)
              field == C12_Field(m.label)
          IN  /\ meta'.title = IF field = "title" THEN Some(value) ELSE meta.title
              /\ meta'.author = IF field = "author" THEN Some(value) ELSE meta.author
              /\ meta'.intro_lines = IF field = "synopsis" THEN Append(meta.intro_lines, value)
                                     ELSE meta.intro_lines
              /\ meta'.in_intro = (field = "synopsis")
    ]_vars

\* the scan has just passed an author label line with a value, met outside the intro,
\* and the value is in the intro buffer while the author is unset
C12_Witness ==
    /\ pc = "scan"
    /\ meta.i > 1
    /\ LET lm == LABEL_RE(Strip(lines[meta.i - 1]))
       IN  /\ ~IsNone(lm)
           /\ C12_Field(Get(lm).label) = "author"
           /\ meta.intro_lines = <<Strip(Get(lm).value)>>
           /\ meta.in_intro
           /\ IsNone(meta.author)
           /\ \A k \in 1..(meta.i - 2) : Strip(lines[k]) = << >>

-----------------------------------------------------------------------------
(* C13 *)

\* the indices of lines[i..] that the metadata pass did not consume, in order
RECURSIVE C13_KeptFrom(_)
C13_KeptFrom(i) ==
    IF i > Len(lines) THEN << >>
    ELSE (IF i \in meta.skip_idx THEN << >> ELSE <<i>>) \o C13_KeptFrom(i + 1)

\* the index in lines of body_lines[k]: the leading blank lines were dropped
C13_Origin(k) == C13_KeptFrom(1)[k + (Len(C13_KeptFrom(1)) - Len(body_lines))]

\* the decision of the metadata pass on lines[i]
C13_OrigType(i) == classify_heading(lines[i], PrevOf(lines, i), NextOf(lines, i))

\* the index of the first heading of the metadata pass, or Len(lines) + 1 when it finds none
C13_FirstHeading == meta.scan_limit + 1

\* C13: the two passes agree on what is a heading: every line kept in the filtered body
\* stream gets from its neighbours there the classification it gets from its neighbours
\* in the original line list; so no kept line before the first heading of the metadata
\* pass is a heading for the assembler, and that first heading is one for the assembler.
C13_PassesAgree ==
    Assembled =>
        /\ \A k \in 1..Len(body_lines) : BodyType(k) = C13_OrigType(C13_Origin(k))
        /\ \A k \in 1..Len(body_lines) :
              /\ C13_Origin(k) < C13_FirstHeading => IsNone(BodyType(k))
              /\ C13_Origin(k) = C13_FirstHeading => ~IsNone(BodyType(k))

\* parse_book has returned a Book whose first spine entry is a chapter made from a kept
\* line that comes before the first heading of the metadata pass
C13_Witness ==
    /\ Parsed
    /\ book.spine # << >>
    /\ \E k \in 1..Len(body_lines) :
          /\ C13_Origin(k) < C13_FirstHeading
          /\ IsNone(C13_OrigType(C13_Origin(k)))
          /\ BodyType(k) = Some("chapter")
          /\ heap[book.spine[1]].kind = "Chapter"
          /\ heap[book.spine[1]].title = Strip(body_lines[k])

=============================================================================
